---- MODULE Spec2Model ----
(***************************************************************************)
(* whisper_runner.py: one invocation of the transcription adapter.         *)
(*                                                                         *)
(* The process is modelled statement block by statement block.  The        *)
(* environment (argument vector, torch backends, audio file, the outcome   *)
(* of every library call) is drawn from small sets.                        *)
(*                                                                         *)
(* Representation                                                          *)
(*   - text whose characters the code inspects or that comes from outside  *)
(*     is a sequence of one-character strings; fixed labels and messages   *)
(*     of the code are TLA+ strings;                                       *)
(*   - a Python/JSON value is a tagged record [t |-> kind, v |-> value];   *)
(*   - a dict is a function whose DOMAIN is the set of keys present;       *)
(*   - times and probabilities returned by the model are in 1/10000,       *)
(*     values after round(x, 3) are in 1/1000;                             *)
(*   - the audio length is a number of samples, and duration is kept as    *)
(*     that number (unit 1/SAMPLE_RATE second);                            *)
(*   - an exception is [type, msg, line], line being the source line that  *)
(*     raised it (what traceback.format_exc() reports).                    *)
(***************************************************************************)
EXTENDS Integers, Sequences, FiniteSets, TLC

\* ---------------------------------------------------------------- bounds
MaxSegs == 2
MaxWords == 2

\* whisper.audio.SAMPLE_RATE
SAMPLE_RATE == 16000

\* ------------------------------------------------------- text operations
White == {" "}

RECURSIVE LStrip(_)
LStrip(s) == IF s # <<>> /\ Head(s) \in White THEN LStrip(Tail(s)) ELSE s

RECURSIVE RStrip(_)
RStrip(s) ==
    IF s # <<>> /\ s[Len(s)] \in White THEN RStrip(SubSeq(s, 1, Len(s) - 1)) ELSE s

\* str.strip()
Strip(s) == RStrip(LStrip(s))

\* len(s.split()): number of maximal runs of non-whitespace characters
RECURSIVE SplitCount(_)
SplitCount(s) ==
    IF s = <<>> THEN 0
    ELSE IF Head(s) \in White THEN SplitCount(Tail(s))
    ELSE IF Len(s) = 1 \/ s[2] \in White THEN 1 + SplitCount(Tail(s))
    ELSE SplitCount(Tail(s))

\* ---------------------------------------------------------------- numbers
RoundDown(n, d) == n \div d

\* round() of the non-negative rational n/d to an integer, ties to even
RoundHalfEven(n, d) ==
    LET q == n \div d
        r == n % d
    IN  IF 2 * r < d THEN q
        ELSE IF 2 * r > d THEN q + 1
        ELSE IF q % 2 = 0 THEN q ELSE q + 1

\* round(x, 3) of a value given in 1/10000, result in 1/1000
Round3(x) == RoundHalfEven(x, 10)

Max(a, b) == IF a >= b THEN a ELSE b

\* ----------------------------------------------------------- JSON values
None == [t |-> "null"]
Str(s) == [t |-> "str", v |-> s]
Num(n) == [t |-> "num", v |-> n]
Absent == [t |-> "absent"]

\* the dict holding the keys of r whose value is not Absent
MkDict(r) == [k \in {x \in DOMAIN r : r[x] # Absent} |-> r[k]]

\* dict.get(key, default)
Get(d, key, default) == IF key \in DOMAIN d THEN d[key] ELSE default

TruthyStrOnly(val) == ~(val.t = "str" /\ val.v = <<>>)

\* Python truth value of a JSON value
Truthy(val) ==
    CASE val.t = "null" -> FALSE
      [] val.t = "num"  -> val.v # 0
      [] val.t = "str"  -> val.v # <<>>
      [] val.t = "list" -> val.v # <<>>
      [] val.t = "obj"  -> DOMAIN val.v # {}
      [] OTHER          -> TRUE

Exc(type, msg, line) == [type |-> type, msg |-> msg, line |-> line]
NoExc == Exc("", "", 0)

\* the body of the try statement
TryFirst == 40
TryLast == 143
InTry(line) == line \in TryFirst..TryLast

DefaultModel == Str(<<"l","a","r","g","e","-","v","3","-","t","u","r","b","o">>)
DefaultLanguage == Str(<<"e","n">>)

\* ------------------------------------------- the model's return structure
\* segment.get("words", [])
SegWords(seg) == Get(seg, "words", <<>>)

\* the first key of keys (in evaluation order) missing from dict d, as a
\* KeyError raised on the line that reads it; NoExc when none is missing
RECURSIVE MissingKey(_, _)
MissingKey(d, keys) ==
    IF keys = <<>> THEN NoExc
    ELSE IF Head(keys)[1] \in DOMAIN d THEN MissingKey(d, Tail(keys))
    ELSE Exc("KeyError", Head(keys)[1], Head(keys)[2])

\* lines 96-101: one entry of the flat list
WordEntry(w) ==
    [word        |-> Strip(w.word),
     start       |-> Round3(w.start),
     end         |-> Round3(w.end),
     probability |-> Round3(Get(w, "probability", 10000))]

LineWordEntryRaw(w) ==
    [word |-> w.word, start |-> Round3(w.start), end |-> Round3(w.end)]

\* lines 110-114: one entry of a line's word list
LineWordEntry(w) ==
    [word |-> Strip(w.word), start |-> Round3(w.start), end |-> Round3(w.end)]

\* lines 95-101: the entries one segment adds to the flat list, or the
\* exception raised
RECURSIVE FlatWords(_)
FlatWords(ws) ==
    IF ws = <<>> THEN [exc |-> NoExc, value |-> <<>>]
    ELSE LET e == MissingKey(Head(ws),
                      <<(<<"word", 97>>), (<<"start", 98>>), (<<"end", 99>>)>>)
         IN  IF e # NoExc THEN [exc |-> e, value |-> <<>>]
             ELSE LET rest == FlatWords(Tail(ws))
                  IN  [exc   |-> rest.exc,
                       value |-> <<WordEntry(Head(ws))>> \o rest.value]

\* lines 93-101: the flat word list, or the exception the loop raises
RECURSIVE ExtractWords(_)
ExtractWords(segments) ==
    IF segments = <<>> THEN [exc |-> NoExc, value |-> <<>>]
    ELSE LET first == FlatWords(SegWords(Head(segments)))
         IN  IF first.exc # NoExc THEN [exc |-> first.exc, value |-> <<>>]
             ELSE LET rest == ExtractWords(Tail(segments))
                  IN  [exc |-> rest.exc, value |-> first.value \o rest.value]

\* lines 108-114: the word list of one segment, or the exception raised
RECURSIVE SegmentWords(_)
SegmentWords(ws) ==
    IF ws = <<>> THEN [exc |-> NoExc, value |-> <<>>]
    ELSE LET e == MissingKey(Head(ws),
                      <<(<<"word", 111>>), (<<"start", 112>>), (<<"end", 113>>)>>)
         IN  IF e # NoExc THEN [exc |-> e, value |-> <<>>]
             ELSE LET rest == SegmentWords(Tail(ws))
                  IN  [exc   |-> rest.exc,
                       value |-> <<LineWordEntry(Head(ws))>> \o rest.value]

KeepsSegmentAlways(segment_words) == TRUE

\* line 116: if segment_words
KeepsSegment(segment_words) == segment_words # <<>>

\* lines 106-122: the line list, or the exception the loop raises
RECURSIVE BuildLines(_)
BuildLines(segments) ==
    IF segments = <<>> THEN [exc |-> NoExc, value |-> <<>>]
    ELSE
      LET seg == Head(segments)
          sw  == SegmentWords(SegWords(seg))
      IN  IF sw.exc # NoExc THEN [exc |-> sw.exc, value |-> <<>>]
          ELSE IF ~KeepsSegment(sw.value) THEN BuildLines(Tail(segments))
          ELSE LET e == MissingKey(seg,
                            <<(<<"text", 118>>), (<<"start", 119>>), (<<"end", 120>>)>>)
               IN  IF e # NoExc THEN [exc |-> e, value |-> <<>>]
                   ELSE LET rest == BuildLines(Tail(segments))
                            line == [text  |-> Strip(seg.text),
                                     start |-> Round3(seg.start),
                                     end   |-> Round3(seg.end),
                                     words |-> sw.value]
                        IN  [exc |-> rest.exc, value |-> <<line>> \o rest.value]

RECURSIVE SumProbability(_)
SumProbability(ws) ==
    IF ws = <<>> THEN 0 ELSE Head(ws).probability + SumProbability(Tail(ws))

\* line 127: avg_confidence as the fraction num/den of 1/1000
AvgConfidence(ws) ==
    IF ws # <<>> THEN [num |-> SumProbability(ws), den |-> Len(ws)]
    ELSE [num |-> 0, den |-> 1]

EmittedAvgTruncated(avg) == RoundDown(avg.num, avg.den)

\* line 141: round(avg_confidence, 3), in 1/1000
EmittedAvg(avg) == RoundHalfEven(avg.num, avg.den)

NumChunksCeil(duration) ==
    Max(1, (duration + 30 * SAMPLE_RATE - 1) \div (30 * SAMPLE_RATE))

\* line 84: max(1, int(duration / 30))
NumChunks(duration) == Max(1, duration \div (30 * SAMPLE_RATE))

\* ------------------------------------------------------ device selection
SelectDeviceNoHasattr(t) ==
    IF t.cuda THEN [exc |-> NoExc, device |-> "cuda", device_name |-> t.cudaName]
    ELSE IF t.mps = "noattr"
         THEN [exc |-> Exc("AttributeError", "module has no attribute 'mps'", 48),
               device |-> "", device_name |-> ""]
    ELSE IF t.mps = "available"
         THEN [exc |-> NoExc, device |-> "mps", device_name |-> "Apple Silicon GPU"]
    ELSE [exc |-> NoExc, device |-> "cpu", device_name |-> "CPU"]

\* lines 45-53; t.mps is "noattr" when torch.backends has no mps attribute
SelectDevice(t) ==
    IF t.cuda THEN [exc |-> NoExc, device |-> "cuda", device_name |-> t.cudaName]
    ELSE IF t.mps # "noattr" /\ t.mps = "available"
         THEN [exc |-> NoExc, device |-> "mps", device_name |-> "Apple Silicon GPU"]
    ELSE [exc |-> NoExc, device |-> "cpu", device_name |-> "CPU"]

\* the library calls a probe of t makes, in order
ProbeCalls(t) ==
    IF t.cuda THEN {"cuda.is_available", "cuda.get_device_name"}
    ELSE IF t.mps # "noattr" THEN {"cuda.is_available", "mps.is_available"}
    ELSE {"cuda.is_available"}

\* ------------------------------------------------------- the environment
SeqsUpTo(S, n) == UNION {[1..k -> S] : k \in 0..n}

InputPath == Str(<<"a", ".", "w", "a", "v">>)
Hint == Str(<<"m", "y", " ", "s", "o", "n", "g">>)

ArgObjects ==
    {[t |-> "obj",
      v |-> MkDict([input |-> i, model |-> m, initial_prompt |-> p, language |-> l])] :
        i \in {Absent, None, Str(<<>>), InputPath},
        m \in {Absent, Str(<<"t", "i", "n", "y">>)},
        p \in {Absent, Str(<<>>), Hint, Num(7)},
        l \in {Absent, Str(<<"e", "s">>)}}

NonObjects == {None, Num(3), Str(<<"x">>), [t |-> "list", v |-> <<>>]}

\* sys.argv[1:]: no argument, or one argument text, described by what
\* json.loads makes of it
ArgvCases ==
    {<<>>, <<[valid |-> FALSE, value |-> None]>>}
    \cup {<<[valid |-> TRUE, value |-> a]>> : a \in ArgObjects \cup NonObjects}

TorchCases ==
    [cuda : BOOLEAN, mps : {"noattr", "unavailable", "available"}, cudaName : {"GPU 0"}]

\* sample counts of the decoded audio: 0 s, 59.99.. s, 60 s, 90 s
AudioLengths == {0, 60 * SAMPLE_RATE - 1, 60 * SAMPLE_RATE, 90 * SAMPLE_RATE}

W1 == [word |-> <<" ", "l", "a">>, start |-> 10004, end |-> 14996, probability |-> 4996]
W2 == [word |-> <<"d", "i", " ">>, start |-> 15000, end |-> 19999]
WBad == [start |-> 20000, end |-> 21000]
WordDomain == {W1, W2, WBad}

SegText == <<" ", "l", "a", " ", "d", "i">>
Seg(ws) == [text |-> SegText, start |-> 10004, end |-> 19999, words |-> ws]
SegNoWords == [text |-> SegText, start |-> 10004, end |-> 19999]
SegNoText == [start |-> 10004, end |-> 19999, words |-> <<W2>>]
SegBare == [start |-> 10004, end |-> 19999]

SegDomain ==
    {Seg(ws) : ws \in SeqsUpTo(WordDomain, MaxWords)} \cup {SegNoWords, SegNoText, SegBare}

Res(ss) == [text |-> Str(SegText), language |-> Str(<<"e", "n">>), segments |-> ss]

\* every result shape within the bounds
BoundedResults ==
    {Res(ss) : ss \in SeqsUpTo(SegDomain, MaxSegs)}
    \cup {[text |-> Str(SegText), language |-> Str(<<"e", "n">>)]}

\* a few result shapes, one per path of the code after transcription
SampleResults ==
    { Res(<<Seg(<<W1, W2>>)>>),
      Res(<<Seg(<<>>), SegNoWords, Seg(<<W2>>), Seg(<<W1, W1>>)>>),
      [x \in {} |-> None],
      [text |-> None, segments |-> <<>>],
      [text |-> Str(SegText), language |-> [t |-> "bytes"], segments |-> <<Seg(<<W1>>)>>],
      Res(<<Seg(<<W1, WBad>>)>>),
      Res(<<Seg(<<W1>>), SegNoText>>) }

\* ------------------------------------------------------------- the state
VARIABLES argv, torch, audioFile,
          pc, exc, calls,
          args, input_path, model_name, initial_prompt, language,
          device, device_name, duration, transcribe_params, num_chunks,
          result, words, lines, avg_confidence,
          stdout, stderr, exitCode

envVars == <<argv, torch, audioFile>>
argVars == <<args, input_path, model_name, initial_prompt, language>>
devVars == <<device, device_name>>
audioVars == <<duration, transcribe_params, num_chunks>>
dataVars == <<result, words, lines, avg_confidence>>
ioVars == <<stdout, stderr, exitCode>>
vars == <<envVars, pc, exc, calls, argVars, devVars, audioVars, dataVars, ioVars>>

\* the process has not terminated
Running == -1

\* unbound locals hold placeholders
InitLocals ==
    /\ pc = "argv" /\ exc = NoExc /\ calls = {}
    /\ args = Absent /\ input_path = Absent /\ model_name = Absent
    /\ initial_prompt = Absent /\ language = Absent
    /\ device = "" /\ device_name = ""
    /\ duration = -1 /\ transcribe_params = Absent /\ num_chunks = 0
    /\ result = Absent /\ words = <<>> /\ lines = <<>>
    /\ avg_confidence = [num |-> 0, den |-> 1]
    /\ stdout = <<>> /\ stderr = <<>> /\ exitCode = Running

Init ==
    /\ argv \in ArgvCases
    /\ torch \in TorchCases
    /\ audioFile \in AudioLengths
    /\ InitLocals

\* one well-formed request with a vocabulary hint, on an MPS machine
InitReshape ==
    /\ argv = <<[valid |-> TRUE,
                 value |-> [t |-> "obj",
                            v |-> [input |-> InputPath, initial_prompt |-> Hint]]]>>
    /\ torch = [cuda |-> FALSE, mps |-> "available", cudaName |-> "GPU 0"]
    /\ audioFile = 90 * SAMPLE_RATE
    /\ InitLocals

\* ------------------------------------------------------------ statements
\* lines 15-17
progress(percent, message) ==
    Append(stderr, [kind |-> "PROGRESS", percent |-> percent, message |-> message])

PrintAndExitZero(obj, code) ==
    /\ stdout' = Append(stdout, obj)
    /\ exitCode' = 0
    /\ pc' = "done"
    /\ UNCHANGED <<stderr, exc>>

\* print(json.dumps(obj)) followed by the end of the process with status code
PrintAndExit(obj, code) ==
    /\ stdout' = Append(stdout, obj)
    /\ exitCode' = code
    /\ pc' = "done"
    /\ UNCHANGED <<stderr, exc>>

\* raise e
Raise(e) ==
    /\ exc' = e
    /\ pc' = "raised"
    /\ UNCHANGED ioVars

\* lines 20-22
CheckArgv ==
    /\ pc = "argv"
    /\ IF Len(argv) + 1 < 2
       THEN PrintAndExit([error |-> "Missing arguments"], 1)
       ELSE pc' = "parse" /\ UNCHANGED <<ioVars, exc>>
    /\ UNCHANGED <<envVars, calls, argVars, devVars, audioVars, dataVars>>

\* lines 24-28
ParseArgs ==
    /\ pc = "parse"
    /\ IF ~argv[1].valid
       THEN PrintAndExit([error |-> "Invalid JSON arguments"], 1) /\ UNCHANGED args
       ELSE args' = argv[1].value /\ pc' = "args" /\ UNCHANGED <<ioVars, exc>>
    /\ UNCHANGED <<envVars, calls, input_path, model_name, initial_prompt, language,
                   devVars, audioVars, dataVars>>

\* lines 30-37
ReadArgs ==
    /\ pc = "args"
    /\ IF args.t # "obj"
       THEN /\ Raise(Exc("AttributeError", "object has no attribute 'get'", 30))
            /\ UNCHANGED <<input_path, model_name, initial_prompt, language>>
       ELSE /\ input_path' = Get(args.v, "input", None)
            /\ model_name' = Get(args.v, "model", DefaultModel)
            /\ initial_prompt' = Get(args.v, "initial_prompt", None)
            /\ language' = Get(args.v, "language", DefaultLanguage)
            /\ IF ~Truthy(input_path')
               THEN PrintAndExit([error |-> "Missing input path"], 1)
               ELSE pc' = "import" /\ UNCHANGED <<ioVars, exc>>
    /\ UNCHANGED <<envVars, calls, args, devVars, audioVars, dataVars>>

\* lines 40-42
ImportModules ==
    /\ pc = "import"
    /\ calls' = calls \cup {"import"}
    /\ \E ok \in BOOLEAN :
          IF ok THEN pc' = "device" /\ UNCHANGED <<ioVars, exc>>
          ELSE Raise(Exc("ImportError", "No module named 'whisper'", 41))
    /\ UNCHANGED <<envVars, argVars, devVars, audioVars, dataVars>>

\* lines 45-55
DetectDevice ==
    /\ pc = "device"
    /\ calls' = calls \cup ProbeCalls(torch)
    /\ LET sel == SelectDevice(torch)
       IN  IF sel.exc # NoExc
           THEN Raise(sel.exc) /\ UNCHANGED devVars
           ELSE /\ device' = sel.device
                /\ device_name' = sel.device_name
                /\ stderr' = progress(0, <<"Loading Whisper", model_name, "on",
                                           sel.device_name>>)
                /\ pc' = "load_model"
                /\ UNCHANGED <<stdout, exitCode, exc>>
    /\ UNCHANGED <<envVars, argVars, audioVars, dataVars>>

\* lines 58-60
LoadModel ==
    /\ pc = "load_model"
    /\ calls' = calls \cup {"load_model"}
    /\ \E ok \in BOOLEAN :
          IF ok
          THEN /\ stderr' = progress(15, <<"Loading audio for transcription">>)
               /\ pc' = "load_audio"
               /\ UNCHANGED <<stdout, exitCode, exc>>
          ELSE Raise(Exc("RuntimeError", "load_model failed", 58))
    /\ UNCHANGED <<envVars, argVars, devVars, audioVars, dataVars>>

\* lines 63-66
LoadAudio ==
    /\ pc = "load_audio"
    /\ calls' = calls \cup {"load_audio"}
    /\ \E ok \in BOOLEAN :
          IF ok
          THEN /\ duration' = audioFile
               /\ stderr' = progress(20, <<"Transcribing",
                                RoundHalfEven(10 * audioFile, SAMPLE_RATE), "of audio">>)
               /\ pc' = "params"
               /\ UNCHANGED <<stdout, exitCode, exc>>
          ELSE Raise(Exc("RuntimeError", "Failed to load audio", 63)) /\ UNCHANGED duration
    /\ UNCHANGED <<envVars, argVars, devVars, transcribe_params, num_chunks, dataVars>>

\* lines 69-80
BuildParams ==
    /\ pc = "params"
    /\ IF Truthy(initial_prompt)
       THEN /\ transcribe_params' =
                   [language |-> language, task |-> "transcribe",
                    initial_prompt |-> initial_prompt]
            /\ IF initial_prompt.t # "str"
               THEN Raise(Exc("AttributeError", "object has no attribute 'split'", 80))
               ELSE /\ stderr' = progress(22, <<"Using vocabulary hints",
                                                SplitCount(initial_prompt.v), "words">>)
                    /\ pc' = "chunks"
                    /\ UNCHANGED <<stdout, exitCode, exc>>
       ELSE /\ transcribe_params' = [language |-> language, task |-> "transcribe"]
            /\ pc' = "chunks"
            /\ UNCHANGED <<ioVars, exc>>
    /\ UNCHANGED <<envVars, calls, argVars, devVars, duration, num_chunks, dataVars>>

\* lines 84-86
EstimateChunks ==
    /\ pc = "chunks"
    /\ num_chunks' = NumChunks(duration)
    /\ IF num_chunks' > 1
       THEN stderr' = progress(25, <<"Processing", num_chunks', "segments">>)
       ELSE UNCHANGED stderr
    /\ pc' = "transcribe"
    /\ UNCHANGED <<envVars, exc, calls, argVars, devVars, duration, transcribe_params,
                   dataVars, stdout, exitCode>>

\* lines 88-90; the model returns one of the results of Pool or raises
Transcribe(Pool) ==
    /\ pc = "transcribe"
    /\ calls' = calls \cup {"transcribe"}
    /\ \E ok \in BOOLEAN, r \in Pool :
          IF ok
          THEN /\ result' = r
               /\ stderr' = progress(85, <<"Extracting word timestamps">>)
               /\ pc' = "extract"
               /\ UNCHANGED <<stdout, exitCode, exc>>
          ELSE Raise(Exc("RuntimeError", "transcribe failed", 88)) /\ UNCHANGED result
    /\ UNCHANGED <<envVars, argVars, devVars, audioVars, words, lines, avg_confidence>>

\* lines 93-103
ExtractWordsStep ==
    /\ pc = "extract"
    /\ LET r == ExtractWords(Get(result, "segments", <<>>))
       IN  IF r.exc # NoExc
           THEN Raise(r.exc) /\ UNCHANGED words
           ELSE /\ words' = r.value
                /\ stderr' = progress(90, <<"Found", Len(r.value), "words">>)
                /\ pc' = "lines"
                /\ UNCHANGED <<stdout, exitCode, exc>>
    /\ UNCHANGED <<envVars, calls, argVars, devVars, audioVars, result, lines,
                   avg_confidence>>

\* lines 106-124
BuildLinesStep ==
    /\ pc = "lines"
    /\ LET r == BuildLines(Get(result, "segments", <<>>))
       IN  IF r.exc # NoExc
           THEN Raise(r.exc) /\ UNCHANGED lines
           ELSE /\ lines' = r.value
                /\ stderr' = progress(95, <<"Organized into", Len(r.value), "lines">>)
                /\ pc' = "stats"
                /\ UNCHANGED <<stdout, exitCode, exc>>
    /\ UNCHANGED <<envVars, calls, argVars, devVars, audioVars, result, words,
                   avg_confidence>>

\* lines 127-129
ComputeStats ==
    /\ pc = "stats"
    /\ avg_confidence' = AvgConfidence(words)
    /\ stderr' = progress(100, <<"Transcribed", Len(words), "words", Len(lines), "lines">>)
    /\ pc' = "output"
    /\ UNCHANGED <<envVars, exc, calls, argVars, devVars, audioVars, result, words, lines,
                   stdout, exitCode>>

\* lines 132-143, and the normal end of the process
Output ==
    /\ pc = "output"
    /\ LET text == Get(result, "text", Str(<<>>))
           lang == Get(result, "language", language)
       IN  IF text.t # "str"
           THEN Raise(Exc("AttributeError", "object has no attribute 'strip'", 134))
           ELSE IF lang.t = "bytes"
           THEN Raise(Exc("TypeError", "Object of type bytes is not JSON serializable", 143))
           ELSE PrintAndExit([success       |-> TRUE,
                              text          |-> Str(Strip(text.v)),
                              language      |-> lang,
                              lines         |-> lines,
                              words         |-> words,
                              model         |-> model_name,
                              device        |-> device,
                              duration      |-> duration,
                              avgConfidence |-> EmittedAvg(avg_confidence)], 0)
    /\ UNCHANGED <<envVars, calls, argVars, devVars, audioVars, dataVars>>

ErrorObjectNoTraceback(e) == [error |-> e.msg]

\* lines 147-150
ErrorObject(e) ==
    [error |-> e.msg, traceback |-> [type |-> e.type, line |-> e.line]]

\* lines 145-151 for an exception raised inside the try statement; outside of
\* it the interpreter writes the traceback to standard error and ends the
\* process
HandleException ==
    /\ pc = "raised"
    /\ IF InTry(exc.line)
       THEN PrintAndExit(ErrorObject(exc), 1)
       ELSE /\ stderr' = Append(stderr, [kind |-> "Traceback", percent |-> -1,
                                         message |-> <<exc.type, exc.line>>])
            /\ exitCode' = 1
            /\ pc' = "done"
            /\ UNCHANGED <<stdout, exc>>
    /\ UNCHANGED <<envVars, calls, argVars, devVars, audioVars, dataVars>>

TranscribeSample == Transcribe(SampleResults)
TranscribeBounded == Transcribe(BoundedResults)

Next ==
    \/ CheckArgv
    \/ ParseArgs
    \/ ReadArgs
    \/ ImportModules
    \/ DetectDevice
    \/ LoadModel
    \/ LoadAudio
    \/ BuildParams
    \/ EstimateChunks
    \/ TranscribeSample
    \/ ExtractWordsStep
    \/ BuildLinesStep
    \/ ComputeStats
    \/ Output
    \/ HandleException

NextReshape ==
    \/ CheckArgv
    \/ ParseArgs
    \/ ReadArgs
    \/ ImportModules
    \/ DetectDevice
    \/ LoadModel
    \/ LoadAudio
    \/ BuildParams
    \/ EstimateChunks
    \/ TranscribeBounded
    \/ ExtractWordsStep
    \/ BuildLinesStep
    \/ ComputeStats
    \/ Output
    \/ HandleException

\* every invocation, a few model results
Spec == Init /\ [][Next]_vars

\* one well-formed invocation, every model result within the bounds
SpecReshape == InitReshape /\ [][NextReshape]_vars

\* ------------------------------------------------------------ properties
Done == pc = "done"
IsSuccess(o) == "success" \in DOMAIN o
IsError(o) == "error" \in DOMAIN o
HasSuccess == \E i \in 1..Len(stdout) : IsSuccess(stdout[i])
HasError == \E i \in 1..Len(stdout) : IsError(stdout[i])

IsProgressLine(l) == l.kind = "PROGRESS"
ProgressLines == SelectSeq(stderr, IsProgressLine)
Percents == [i \in 1..Len(ProgressLines) |-> ProgressLines[i].percent]

IsPrefix(s, t) == Len(s) <= Len(t) /\ SubSeq(t, 1, Len(s)) = s
Abs(x) == IF x < 0 THEN -x ELSE x

ArgIsObject == Len(argv) = 1 /\ argv[1].valid /\ argv[1].value.t = "obj"

\* no argument, an argument that is not JSON, or an object without input path
InputError ==
    \/ argv = <<>>
    \/ Len(argv) = 1 /\ ~argv[1].valid
    \/ ArgIsObject /\ Get(argv[1].value.v, "input", None) \in {None, Str(<<>>)}

\* C1: when the process has terminated, exactly one JSON object has been
\* written to standard output, whatever the argument and the outcome
C1_ExactlyOneObject == Done => Len(stdout) = 1

\* C2: an input error is reported as an object holding only "error", with
\* exit code 1, and no library call and no progress line ever happens
C2_InputErrors ==
    InputError =>
        /\ calls = {}
        /\ stderr = <<>>
        /\ ~HasSuccess
        /\ Done => /\ Len(stdout) = 1
                   /\ DOMAIN stdout[1] = {"error"}
                   /\ exitCode = 1

C2_Witness ==
    /\ Done /\ ArgIsObject /\ "input" \notin DOMAIN argv[1].value.v
    /\ stdout = <<[error |-> "Missing input path"]>>

\* C3: an exception raised after input validation ends the run with one
\* object holding "error" and "traceback" and exit code 1, and never with a
\* success object, also after progress lines
C3_RuntimeErrors ==
    (exc # NoExc /\ exc.line > 37) =>
        /\ ~HasSuccess
        /\ Done => /\ Len(stdout) = 1
                   /\ DOMAIN stdout[1] = {"error", "traceback"}
                   /\ stdout[1].error = exc.msg
                   /\ exitCode = 1

C3_Witness ==
    /\ Done /\ exc.line = 143 /\ Len(ProgressLines) >= 8
    /\ Len(stdout) = 1 /\ "traceback" \in DOMAIN stdout[1]

\* C4: the exit code is 0 exactly when the success object was written, and 1
\* after every input error and every exception
C4_ExitCode ==
    /\ ~Done => exitCode = Running
    /\ Done => /\ exitCode \in {0, 1}
               /\ exitCode = 0 <=> HasSuccess
               /\ HasError => exitCode = 1
               /\ (InputError \/ exc # NoExc) => exitCode = 1

C4_Witness == Done /\ exitCode = 0 /\ HasSuccess /\ ~HasError

Milestones(hint, long) ==
    <<0, 15, 20>> \o (IF hint THEN <<22>> ELSE <<>>)
                 \o (IF long THEN <<25>> ELSE <<>>)
                 \o <<85, 90, 95, 100>>

\* a non-empty vocabulary hint was supplied
HintSupplied ==
    /\ ArgIsObject
    /\ LET p == Get(argv[1].value.v, "initial_prompt", None)
       IN  p.t = "str" /\ p.v # <<>>

\* the decoded audio holds at least two whole 30-second chunks
LongAudio == audioFile >= 2 * 30 * SAMPLE_RATE

C5_Percents ==
    /\ \A i \in 1..(Len(Percents) - 1) : Percents[i] < Percents[i + 1]
    /\ IsPrefix(Percents, Milestones(HintSupplied, LongAudio))
    /\ HasSuccess => Percents = Milestones(HintSupplied, LongAudio)

C5_Order ==
    /\ stdout # <<>> => stderr' = stderr
    /\ stderr' # stderr => stdout' = <<>>

\* C5: the progress percentages are strictly increasing and a prefix of
\* 0, 15, 20, [22], [25], 85, 90, 95, 100 (22 with a vocabulary hint, 25 with
\* more than one 30-second chunk), complete on success, and every progress
\* line is written before the JSON object
C5_Progress == [](C5_Percents) /\ [][C5_Order]_vars

C5_Witness ==
    /\ Done /\ HasSuccess
    /\ Percents = <<0, 15, 20, 22, 25, 85, 90, 95, 100>>

RECURSIVE SumEmitted(_)
SumEmitted(ws) == IF ws = <<>> THEN 0 ELSE Head(ws).probability + SumEmitted(Tail(ws))

\* C6 as stated: avgConfidence equals the arithmetic mean of the emitted
\* probabilities, and 0 when there is no word
C6_ExactMean ==
    \A i \in 1..Len(stdout) :
        IsSuccess(stdout[i]) =>
            LET o == stdout[i]
            IN  IF o.words = <<>> THEN o.avgConfidence = 0
                ELSE o.avgConfidence * Len(o.words) = SumEmitted(o.words)

\* the model returned no probability for any word
NoProbabilityReturned ==
    /\ result # Absent
    /\ \A k \in 1..Len(Get(result, "segments", <<>>)) :
          \A j \in 1..Len(SegWords(Get(result, "segments", <<>>)[k])) :
              "probability" \notin DOMAIN SegWords(Get(result, "segments", <<>>)[k])[j]

\* C6 amended: avgConfidence is the arithmetic mean of the emitted
\* probabilities rounded to 3 decimals (a multiple of 0.001 at most 0.0005
\* away from the mean), and 0 when there is no word
C6_RoundedMean ==
    \A i \in 1..Len(stdout) :
        IsSuccess(stdout[i]) =>
            LET o == stdout[i]
            IN  IF o.words = <<>> THEN o.avgConfidence = 0
                ELSE /\ 2 * Abs(o.avgConfidence * Len(o.words) - SumEmitted(o.words))
                           <= Len(o.words)
                     /\ NoProbabilityReturned => o.avgConfidence = 1000

C6_Witness ==
    /\ Done /\ HasSuccess
    /\ Len(stdout[1].words) = 3
    /\ stdout[1].avgConfidence = 667
    /\ SumEmitted(stdout[1].words) = 2000

HasWords(seg) == "words" \in DOMAIN seg /\ seg.words # <<>>
Segments == IF result = Absent THEN <<>> ELSE Get(result, "segments", <<>>)

\* the emitted lines are the segments with words, in order
LinesMatch(ls, segs) ==
    LET kept == SelectSeq(segs, HasWords)
    IN  /\ Len(ls) = Len(kept)
        /\ \A i \in 1..Len(ls) :
              /\ ls[i].text = Strip(kept[i].text)
              /\ ls[i].start = Round3(kept[i].start)
              /\ ls[i].end = Round3(kept[i].end)
              /\ Len(ls[i].words) = Len(kept[i].words)

\* every word and every segment with words holds the keys the code reads
WellFormedSegments(segs) ==
    \A i \in 1..Len(segs) :
        /\ \A j \in 1..Len(SegWords(segs[i])) :
              {"word", "start", "end"} \subseteq DOMAIN SegWords(segs[i])[j]
        /\ HasWords(segs[i]) => {"text", "start", "end"} \subseteq DOMAIN segs[i]

\* C7: the lines are exactly the segments with at least one word, in order;
\* a segment without words gives no line and does not make the run fail
C7_Lines ==
    /\ pc \in {"stats", "output"} => LinesMatch(lines, Segments)
    /\ \A i \in 1..Len(stdout) :
          IsSuccess(stdout[i]) => LinesMatch(stdout[i].lines, Segments)
    /\ (Done /\ result # Absent /\ WellFormedSegments(Segments)) =>
          /\ HasSuccess /\ exitCode = 0 /\ Len(stdout) = 1

C7_Witness ==
    /\ Done /\ HasSuccess /\ exitCode = 0
    /\ Len(Segments) = 2
    /\ ~HasWords(Segments[1]) /\ HasWords(Segments[2])
    /\ Len(stdout[1].lines) = 1

\* C8: device selection never raises and gives the first available of cuda,
\* mps, cpu, which is the device of the success object
C8_Device ==
    /\ "cuda.is_available" \in calls =>
          /\ exc.line \notin 44..55
          /\ device \in {"cuda", "mps", "cpu"}
          /\ device = "cuda" <=> torch.cuda
          /\ device = "mps" <=> (~torch.cuda /\ torch.mps = "available")
    /\ \A i \in 1..Len(stdout) :
          IsSuccess(stdout[i]) => stdout[i].device = device

C8_Witness ==
    /\ Done /\ HasSuccess
    /\ ~torch.cuda /\ torch.mps = "noattr"
    /\ stdout[1].device = "cpu"

RECURSIVE ConcatLineWords(_)
ConcatLineWords(ls) ==
    IF ls = <<>> THEN <<>> ELSE Head(ls).words \o ConcatLineWords(Tail(ls))

Timing(w) == [word |-> w.word, start |-> w.start, end |-> w.end]

\* C9: in a success object the words of the lines, concatenated in order,
\* are the (word, start, end) entries of the flat word list
C9_Consistent ==
    \A i \in 1..Len(stdout) :
        IsSuccess(stdout[i]) =>
            LET o == stdout[i]
            IN  ConcatLineWords(o.lines) = [j \in 1..Len(o.words) |-> Timing(o.words[j])]

C9_Witness ==
    /\ Done /\ HasSuccess
    /\ Len(stdout[1].lines) = 2
    /\ Len(stdout[1].words) = 3

\* C10: after the progress line with percent 100 no error object is written
\* and the run ends with the success object and exit code 0
C10_After100 ==
    (\E i \in 1..Len(Percents) : Percents[i] = 100) =>
        /\ ~HasError
        /\ Done => HasSuccess /\ exitCode = 0
====
